---- MODULE Spec2Model ----
(***************************************************************************)
(* Model of embeddings_service/app.py: a FastAPI process that loads one    *)
(* sentence-embedding model at import time, probes it once for its output  *)
(* dimension, and then serves GET /health, GET / and POST /embeddings.     *)
(*                                                                         *)
(* Strings that the code inspects character by character (the request's    *)
(* input texts) are sequences of one-character strings.  The handlers are  *)
(* `async def` bodies without an await, so the event loop runs each of     *)
(* them to completion: one action per handler.                             *)
(***************************************************************************)
EXTENDS Integers, Sequences, FiniteSets, TLC

\* ------------------------------------------------------------------ bounds
MaxStrLen == 2
MaxInputLen == 2
MaxDim == 2

\* --------------------------------------------------------------- constants
DefaultModelName == "BAAI/bge-small-en-v1.5"
CustomModelName == "custom/model"
NORMALIZE_DEFAULT == "True"
DefaultDim == 384

NoEnv == "<unset>"
EnvValues == {NoEnv, CustomModelName}

Whitespace == {" "}
Chars == {" ", "a"}
Alphabet == <<" ", "a", "t", "e", "s">>
ProbeText == <<"t", "e", "s", "t">>

Errors == {"CUDA out of memory", "tokenizer error"}
EncodeOutcomes == {[ok |-> TRUE, err |-> ""]} \cup {[ok |-> FALSE, err |-> e] : e \in Errors}

RawNormalize == {"omitted", "true", "false", "null"}

Strings == UNION {[1..n -> Chars] : n \in 0..MaxStrLen}
Inputs == UNION {[1..n -> Strings] : n \in 0..MaxInputLen}
Requests == [input : Inputs, normalize : RawNormalize]

\* The output dimension of the model a name resolves to: 384 for bge-small,
\* anything small for a model named through the environment.
ModelDims(name) == IF name = DefaultModelName THEN {DefaultDim} ELSE 1..MaxDim

NoModel == [loaded |-> FALSE, name |-> "", dim |-> 0]
NoResponse == [endpoint |-> "none"]

VARIABLES environ, phase, MODEL_NAME, model, probe, EMBEDDING_DIM, error,
          loads, probes, dimSets, resp

vars == <<environ, phase, MODEL_NAME, model, probe, EMBEDDING_DIM, error,
          loads, probes, dimSets, resp>>

shared == <<MODEL_NAME, model, EMBEDDING_DIM>>

\* ----------------------------------------------------------- pure helpers
\* os.getenv(name, default)
Getenv(value, default) == IF value = NoEnv THEN default ELSE value

RECURSIVE LStrip(_)
LStrip(t) ==
    IF t = <<>> THEN <<>>
    ELSE IF Head(t) \in Whitespace THEN LStrip(Tail(t)) ELSE t

RECURSIVE RStrip(_)
RStrip(t) ==
    IF t = <<>> THEN <<>>
    ELSE IF t[Len(t)] \in Whitespace THEN RStrip(SubSeq(t, 1, Len(t) - 1)) ELSE t

\* str.strip()
Strip(t) == RStrip(LStrip(t))

\* Python truthiness of a str / of an Optional[bool]
TruthyStr(t) == t /= <<>>
Truthy(v) == v = "True"

FilterTexts_NoStrip(input) == SelectSeq(input, LAMBDA t : TruthyStr(t))

\* texts = [t for t in req.input if isinstance(t, str) and t.strip()]
\* (every element is a str once pydantic has validated List[str])
FilterTexts(input) == SelectSeq(input, LAMBDA t : TruthyStr(Strip(t)))

ParseNormalize_NoneDefault(raw) ==
    CASE raw = "omitted" -> "None"
      [] raw = "true" -> "True"
      [] raw = "false" -> "False"
      [] raw = "null" -> "None"

\* normalize: Optional[bool] = NORMALIZE_DEFAULT
ParseNormalize(raw) ==
    CASE raw = "omitted" -> NORMALIZE_DEFAULT
      [] raw = "true" -> "True"
      [] raw = "false" -> "False"
      [] raw = "null" -> "None"

CharCode(c) == CHOOSE i \in 1..Len(Alphabet) : Alphabet[i] = c

RECURSIVE TextCode(_)
TextCode(t) ==
    IF t = <<>> THEN 0 ELSE CharCode(Head(t)) + (Len(Alphabet) + 1) * TextCode(Tail(t))

\* One row of model.encode: an ndarray of m.dim numbers that depends on the
\* text and on whether normalisation was asked for.
Embed(m, t, norm) ==
    LET x == 2 * TextCode(t) + (IF Truthy(norm) THEN 1 ELSE 0)
    IN  [shape |-> <<m.dim>>, values |-> [i \in 1..m.dim |-> x]]

\* model.encode(texts, normalize_embeddings=norm): one row per text, in order
Encode(m, texts, norm) == [i \in 1..Len(texts) |-> Embed(m, texts[i], norm)]

\* ndarray.tolist()
ToList(v) == v.values

\* len(ndarray)
NdLen(v) == v.shape[1]

\* ------------------------------------------------------------------ startup
StartupNext_SwallowLoadFailure(step, ok) ==
    CASE step = "import" -> IF ok THEN "load" ELSE "fatal"
      [] step = "load" -> "probe"
      [] step = "probe" -> "serving"

StartupNext_SkipProbe(step, ok) ==
    CASE step = "import" -> IF ok THEN "load" ELSE "fatal"
      [] step = "load" -> IF ok THEN "serving" ELSE "fatal"
      [] step = "probe" -> "serving"

\* Top-to-bottom execution of the module body: a `raise RuntimeError` ends the
\* import of the module (and with it the process); the except clause of the
\* probe does not raise.
StartupNext(step, ok) ==
    CASE step = "import" -> IF ok THEN "load" ELSE "fatal"
      [] step = "load" -> IF ok THEN "probe" ELSE "fatal"
      [] step = "probe" -> "serving"

\* _probe = model.encode(["test"], normalize_embeddings=NORMALIZE_DEFAULT);
\* <<>> stands for the call having raised (also when `model` is unbound).
ProbeResult(m, ok) ==
    IF ok /\ m.loaded THEN Encode(m, <<ProbeText>>, NORMALIZE_DEFAULT) ELSE <<>>

ProbeDim_RowCount(p) == IF p /= <<>> THEN Len(p) ELSE DefaultDim

\* EMBEDDING_DIM = int(len(_probe[0])), or 384 when anything raised
ProbeDim(p) == IF p /= <<>> THEN NdLen(p[1]) ELSE DefaultDim

ImportFailedMsg == "Failed to import sentence_transformers. Please install requirements."
LoadFailedMsg(name) == "Failed to load model '" \o name \o "'."

\* lines 7-16: import the library, resolve the configuration, build the app
ImportLib ==
    /\ phase = "import"
    /\ \E ok \in BOOLEAN :
          /\ phase' = StartupNext("import", ok)
          /\ error' = IF ok THEN "" ELSE ImportFailedMsg
          /\ MODEL_NAME' = IF ok THEN Getenv(environ, DefaultModelName) ELSE MODEL_NAME
    /\ UNCHANGED <<environ, model, probe, EMBEDDING_DIM, loads, probes, dimSets, resp>>

\* lines 21-24: model = SentenceTransformer(MODEL_NAME)
LoadModel ==
    /\ phase = "load"
    /\ \E ok \in BOOLEAN, d \in ModelDims(MODEL_NAME) :
          /\ phase' = StartupNext("load", ok)
          /\ model' = IF ok THEN [loaded |-> TRUE, name |-> MODEL_NAME, dim |-> d] ELSE model
          /\ error' = IF ok THEN error ELSE LoadFailedMsg(MODEL_NAME)
    /\ loads' = loads + 1
    /\ UNCHANGED <<environ, MODEL_NAME, probe, EMBEDDING_DIM, probes, dimSets, resp>>

\* lines 27-31: the dimension probe with its fallback
ProbeDimension ==
    /\ phase = "probe"
    /\ \E ok \in BOOLEAN :
          /\ probe' = ProbeResult(model, ok)
          /\ EMBEDDING_DIM' = ProbeDim(probe')
    /\ phase' = StartupNext("probe", TRUE)
    /\ probes' = probes + 1
    /\ dimSets' = dimSets + 1
    /\ UNCHANGED <<environ, MODEL_NAME, model, error, loads, resp>>

\* ----------------------------------------------------------------- handlers
health_HardcodedDim == [status |-> "ok", model |-> MODEL_NAME, dimension |-> DefaultDim]

\* GET /health
health == [status |-> "ok", model |-> MODEL_NAME, dimension |-> EMBEDDING_DIM]

\* GET /
root == [message |-> "Embeddings service ready", model |-> MODEL_NAME, dimension |-> EMBEDDING_DIM]

EmptyInputMsg == "Input must contain at least one non-empty string."

EncodeCall(texts, norm) == [texts |-> texts, normalize_embeddings |-> norm]

embeddings_EncodeFirst(req, outcome) ==
    LET texts == FilterTexts(req.input)
        norm == ParseNormalize(req.normalize)
        vecs == Encode(model, texts, norm)
    IN  IF ~outcome.ok
        THEN [status |-> 500, calls |-> <<EncodeCall(texts, norm)>>,
              body |-> [detail |-> "Encoding failed: " \o outcome.err]]
        ELSE IF texts = <<>>
        THEN [status |-> 400, calls |-> <<EncodeCall(texts, norm)>>,
              body |-> [detail |-> EmptyInputMsg]]
        ELSE [status |-> 200, calls |-> <<EncodeCall(texts, norm)>>,
              body |-> [model |-> MODEL_NAME, dimension |-> EMBEDDING_DIM,
                        data |-> [i \in 1..Len(vecs) |-> [embedding |-> ToList(vecs[i])]]]]

embeddings_Retry(req, outcome) ==
    LET texts == FilterTexts(req.input)
        norm == ParseNormalize(req.normalize)
        vecs == Encode(model, texts, norm)
    IN  IF texts = <<>>
        THEN [status |-> 400, calls |-> <<>>, body |-> [detail |-> EmptyInputMsg]]
        ELSE IF ~outcome.ok
        THEN [status |-> 500, calls |-> <<EncodeCall(texts, norm), EncodeCall(texts, norm)>>,
              body |-> [detail |-> "Encoding failed: " \o outcome.err]]
        ELSE [status |-> 200, calls |-> <<EncodeCall(texts, norm)>>,
              body |-> [model |-> MODEL_NAME, dimension |-> EMBEDDING_DIM,
                        data |-> [i \in 1..Len(vecs) |-> [embedding |-> ToList(vecs[i])]]]]

embeddings_DefaultFlag(req, outcome) ==
    LET texts == FilterTexts(req.input)
        norm == NORMALIZE_DEFAULT
        vecs == Encode(model, texts, norm)
    IN  IF texts = <<>>
        THEN [status |-> 400, calls |-> <<>>, body |-> [detail |-> EmptyInputMsg]]
        ELSE IF ~outcome.ok
        THEN [status |-> 500, calls |-> <<EncodeCall(texts, norm)>>,
              body |-> [detail |-> "Encoding failed: " \o outcome.err]]
        ELSE [status |-> 200, calls |-> <<EncodeCall(texts, norm)>>,
              body |-> [model |-> MODEL_NAME, dimension |-> EMBEDDING_DIM,
                        data |-> [i \in 1..Len(vecs) |-> [embedding |-> ToList(vecs[i])]]]]

\* POST /embeddings: the handler's result for a validated request, given what
\* the library's encode does when called (returns, or raises outcome.err).
\* calls lists the encode invocations the handler makes.
embeddings(req, outcome) ==
    LET texts == FilterTexts(req.input)
        norm == ParseNormalize(req.normalize)
        vecs == Encode(model, texts, norm)
    IN  IF texts = <<>>
        THEN [status |-> 400, calls |-> <<>>, body |-> [detail |-> EmptyInputMsg]]
        ELSE IF ~outcome.ok
        THEN [status |-> 500, calls |-> <<EncodeCall(texts, norm)>>,
              body |-> [detail |-> "Encoding failed: " \o outcome.err]]
        ELSE [status |-> 200, calls |-> <<EncodeCall(texts, norm)>>,
              body |-> [model |-> MODEL_NAME, dimension |-> EMBEDDING_DIM,
                        data |-> [i \in 1..Len(vecs) |-> [embedding |-> ToList(vecs[i])]]]]

Health ==
    /\ phase = "serving"
    /\ resp = NoResponse
    /\ resp' = [endpoint |-> "health", status |-> 200, calls |-> <<>>, body |-> health]
    /\ UNCHANGED <<environ, phase, MODEL_NAME, model, probe, EMBEDDING_DIM, error,
                   loads, probes, dimSets>>

Root ==
    /\ phase = "serving"
    /\ resp = NoResponse
    /\ resp' = [endpoint |-> "root", status |-> 200, calls |-> <<>>, body |-> root]
    /\ UNCHANGED <<environ, phase, MODEL_NAME, model, probe, EMBEDDING_DIM, error,
                   loads, probes, dimSets>>

Embeddings ==
    /\ phase = "serving"
    /\ resp = NoResponse
    /\ \E req \in Requests, outcome \in EncodeOutcomes :
          LET r == embeddings(req, outcome)
          IN  resp' = [endpoint |-> "embeddings", req |-> req, outcome |-> outcome,
                       status |-> r.status, calls |-> r.calls, body |-> r.body]
    /\ UNCHANGED <<environ, phase, MODEL_NAME, model, probe, EMBEDDING_DIM, error,
                   loads, probes, dimSets>>

\* The framework writes the handler's result to the client; the handler's
\* frame and its locals are gone.
SendResponse ==
    /\ resp /= NoResponse
    /\ resp' = NoResponse
    /\ UNCHANGED <<environ, phase, MODEL_NAME, model, probe, EMBEDDING_DIM, error,
                   loads, probes, dimSets>>

\* ------------------------------------------------------------ specification
Init ==
    /\ environ \in EnvValues
    /\ phase = "import"
    /\ MODEL_NAME = ""
    /\ model = NoModel
    /\ probe = <<>>
    /\ EMBEDDING_DIM = 0
    /\ error = ""
    /\ loads = 0
    /\ probes = 0
    /\ dimSets = 0
    /\ resp = NoResponse

Next ==
    \/ ImportLib
    \/ LoadModel
    \/ ProbeDimension
    \/ Health
    \/ Root
    \/ Embeddings
    \/ SendResponse

Spec == Init /\ [][Next]_vars

\* --------------------------------------------------------------- properties
\* A non-blank string, stated without strip(): it has a non-whitespace character.
NonBlank(t) == \E i \in 1..Len(t) : t[i] \notin Whitespace
NonBlankTexts(input) == SelectSeq(input, NonBlank)

\* The normalisation flag a request asks for, as the interface documents it.
RequestedFlag(raw) ==
    IF raw \in {"omitted", "true"} THEN "True"
    ELSE IF raw = "false" THEN "False" ELSE "None"

IsEmb == resp.endpoint = "embeddings"

\* C1: when the input has a non-blank string and encode succeeds, the response
\* is a success whose data has one entry per non-blank input string, the i-th
\* entry being the embedding of the i-th non-blank input string.
C1_DataMatchesNonBlankInputs ==
    (IsEmb /\ NonBlankTexts(resp.req.input) /= <<>> /\ resp.outcome.ok) =>
        LET nb == NonBlankTexts(resp.req.input)
        IN  /\ resp.status = 200
            /\ Len(resp.body.data) = Len(nb)
            /\ \A i \in 1..Len(nb) :
                  resp.body.data[i].embedding
                     = Embed(model, nb[i], RequestedFlag(resp.req.normalize)).values

C1_Witness ==
    /\ IsEmb
    /\ resp.status = 200
    /\ Len(resp.req.input) = 2
    /\ ~NonBlank(resp.req.input[1])
    /\ Len(resp.body.data) = 1

\* C2: an input list that is empty or holds only empty or whitespace-only
\* strings is answered with 400 and the fixed message, and encode is not called.
C2_BlankInputRejected ==
    (IsEmb /\ NonBlankTexts(resp.req.input) = <<>>) =>
        /\ resp.status = 400
        /\ resp.body = [detail |-> "Input must contain at least one non-empty string."]
        /\ resp.calls = <<>>

C2_Witness ==
    /\ IsEmb
    /\ resp.req.input = << <<>>, <<" ", " ">> >>
    /\ resp.status = 400

\* C3: with a non-blank string in the input, a failing encode gives a 500 whose
\* message carries the failure's description, after exactly one encode call.
C3_EncodeFailureIs500 ==
    (IsEmb /\ NonBlankTexts(resp.req.input) /= <<>> /\ ~resp.outcome.ok) =>
        /\ resp.status = 500
        /\ resp.body = [detail |-> "Encoding failed: " \o resp.outcome.err]
        /\ Len(resp.calls) = 1
        /\ resp.calls[1].texts = NonBlankTexts(resp.req.input)

C3_Witness ==
    /\ IsEmb
    /\ resp.status = 500
    /\ resp.outcome.err = "CUDA out of memory"
    /\ Len(resp.calls) = 1

\* C4: every success response of /health, / and /embeddings reports the model
\* name and the dimension fixed at startup, and neither changes while serving.
C4_StableMetadata ==
    /\ []((resp.endpoint /= "none" /\ resp.status = 200) =>
            /\ resp.body.model = MODEL_NAME
            /\ resp.body.dimension = EMBEDDING_DIM
            /\ MODEL_NAME = Getenv(environ, DefaultModelName))
    /\ [][phase = "serving" =>
            /\ MODEL_NAME' = MODEL_NAME
            /\ EMBEDDING_DIM' = EMBEDDING_DIM]_vars

C4_Witness ==
    /\ resp.endpoint = "health"
    /\ resp.body.model = CustomModelName
    /\ resp.body.dimension = EMBEDDING_DIM

\* C5: in every successful /embeddings response each embedding vector has the
\* length the response reports as its dimension.
C5_VectorLengthIsDimension ==
    (IsEmb /\ resp.status = 200) =>
        \A i \in 1..Len(resp.body.data) :
            Len(resp.body.data[i].embedding) = resp.body.dimension

\* C6: a request that omits normalize makes the same encode call (same texts,
\* flag true) and has the same outcome as the request with normalize = true.
C6_OmittedNormalizeIsTrue ==
    (IsEmb /\ resp.req.normalize = "omitted") =>
        LET r == embeddings([resp.req EXCEPT !.normalize = "true"], resp.outcome)
        IN  /\ resp.status = r.status
            /\ resp.body = r.body
            /\ resp.calls = r.calls
            /\ \A i \in 1..Len(resp.calls) :
                  /\ resp.calls[i].normalize_embeddings = "True"
                  /\ resp.calls[i].texts = NonBlankTexts(resp.req.input)

C6_Witness ==
    /\ IsEmb
    /\ resp.req.normalize = "omitted"
    /\ resp.status = 200
    /\ resp.calls[1].normalize_embeddings = "True"

\* C7: once loading the model has failed the process is in its fatal state:
\* one load attempt, no probe, no dimension, no response on any endpoint.
C7_LoadFailureIsFatal ==
    (loads >= 1 /\ ~model.loaded) =>
        /\ phase = "fatal"
        /\ loads = 1
        /\ probes = 0
        /\ dimSets = 0
        /\ resp = NoResponse

C7_Witness ==
    /\ phase = "fatal"
    /\ loads = 1
    /\ error = "Failed to load model 'custom/model'."

\* C8: once the probe has run the service is serving; the dimension is 384 if
\* the probe failed and the length of the probe's vector if it succeeded.
C8_ProbeFallback ==
    (probes >= 1) =>
        /\ phase = "serving"
        /\ (probe = <<>> => EMBEDDING_DIM = 384)
        /\ (probe /= <<>> => EMBEDDING_DIM = Len(probe[1].values))

C8_Witness ==
    /\ probe = <<>>
    /\ IsEmb
    /\ resp.status = 200
    /\ resp.body.dimension = 384

\* C9: load, then probe, then serve: at most one load, one probe and one
\* assignment of the dimension; the probe only with a loaded model; and a
\* request is handled only after the probe and the assignment.
C9_StartupOrder ==
    /\ loads <= 1
    /\ probes <= 1
    /\ dimSets <= 1
    /\ (probes = 1 => (loads = 1 /\ model.loaded))
    /\ (dimSets = 1 => probes = 1)
    /\ ((phase = "serving" \/ resp /= NoResponse) =>
            (probes = 1 /\ dimSets = 1 /\ phase = "serving"))

C9_Witness ==
    /\ resp.endpoint = "root"
    /\ probes = 1
    /\ dimSets = 1

====
